---------------------------- MODULE Spec2Model ----------------------------
(***************************************************************************)
(* Model of app.py, the redistribution-client checker: one run of the      *)
(* script's __main__ block, from the SSH gate check to the printed table.  *)
(*                                                                         *)
(* The gate command output is a sequence of tokens.  A token is one of the *)
(* three literal keywords the regular expressions search for, a space, a   *)
(* newline, a word, a digit or a punctuation mark; the regular expressions *)
(* are evaluated over these tokens as re.search evaluates them over the    *)
(* characters (leftmost match, greedy quantifiers, backtracking).  A       *)
(* captured string is the sequence of its pieces.                          *)
(*                                                                         *)
(* An uncaught Python exception ends the run: pc = "done" and outcome is   *)
(* the exception's class.                                                  *)
(***************************************************************************)
EXTENDS Integers, Sequences, FiniteSets, TLC

VARIABLES
    pc,                 \* position of the script
    outcome,            \* "Running", how the run ended, or the uncaught exception
    net_connect,        \* "unbound", "None", "open", "closed"
    output,             \* show_redistribution_service_status
    parsed_output,      \* a name that may be unbound, else the parsed dict
    pan,                \* "unbound" or "constructed"
    validated,          \* "none", "ok", "failed": pan.refresh_system_info()
    redist_clients,     \* the enumeration response
    children,           \* pan.children: the registered serials, in order
    idx,                \* index in pan.children of the firewall of the loop
    a_info,             \* redist_client_firewall_info of the current firewall
    fw_info,            \* system-info response of the current firewall
    redis_client_list,  \* the report
    table,              \* what tabulate is given, once it is called
    results,            \* history: per firewall of the loop, "ok" or "Failure"
    calls,              \* history: management-API operations, in order
    sshEvents,          \* history: "open", "send", "close" of the SSH session
    logs                \* history: logging.error calls, by source line

vars == <<pc, outcome, net_connect, output, parsed_output, pan, validated,
          redist_clients, children, idx, a_info, fw_info, redis_client_list,
          table, results, calls, sshEvents, logs>>

-----------------------------------------------------------------------------
(* Bounds *)

\* longest list of entries the enumeration response holds
MaxMembers == 3

\* padding tokens before the first status line of a gate text
MaxPad == 1

\* longest text of arbitrary tokens given to the parser
MaxTextLen == 3

\* longest run of arbitrary tokens before and after a given line
MaxAround == 1

-----------------------------------------------------------------------------
(* Names that are unbound, and Python's None *)

Unbound == [bound |-> FALSE]

Bound(v) == [bound |-> TRUE, val |-> v]

None == [none |-> TRUE]

Some(v) == [none |-> FALSE, val |-> v]

-----------------------------------------------------------------------------
(* Tokens of the gate text *)

KR == "Redistribution service:"

KS == "SSL config:"

KN == "number of clients:"

SP == " "

NL == "\n"

Keywords == {KR, KS, KN}

Words == {"up", "down", "Default", "certificates"}

Digits == {"0", "3"}

Punct == {"#"}

Tokens == Keywords \cup {SP, NL} \cup Words \cup Digits \cup Punct

\* \s
IsSpace(t) == t \in {SP, NL}

\* the pieces a token is made of: words and spaces
Pieces(t) ==
    CASE t = KR -> <<"Redistribution", SP, "service:">>
      [] t = KS -> <<"SSL", SP, "config:">>
      [] t = KN -> <<"number", SP, "of", SP, "clients:">>
      [] OTHER -> <<t>>

\* a token whose first character is a \w character
StartsWithWord(t) == t \in Keywords \cup Words \cup Digits

\* a token whose first character is a \d character
StartsWithDigit(t) == t \in Digits

RECURSIVE SpaceRun(_, _)
\* the number of consecutive \s tokens of text from position j on
SpaceRun(text, j) ==
    IF j <= Len(text) /\ IsSpace(text[j]) THEN 1 + SpaceRun(text, j + 1) ELSE 0

RECURSIVE WordRun(_, _)
\* (\w+) from position j on: greedy; it runs into the first word of a keyword
WordRun(text, j) ==
    IF j > Len(text) THEN <<>>
    ELSE IF text[j] \in Words \cup Digits THEN <<text[j]>> \o WordRun(text, j + 1)
    ELSE IF text[j] \in Keywords THEN <<Pieces(text[j])[1]>>
    ELSE <<>>

RECURSIVE DigitRun(_, _)
\* (\d+) from position j on
DigitRun(text, j) ==
    IF j <= Len(text) /\ text[j] \in Digits
    THEN <<text[j]>> \o DigitRun(text, j + 1)
    ELSE <<>>

RECURSIVE DotRun(_, _)
\* (.+) from position j on: every token up to the newline or the end
DotRun(text, j) ==
    IF j <= Len(text) /\ text[j] # NL
    THEN <<text[j]>> \o DotRun(text, j + 1)
    ELSE <<>>

Max(S) == CHOOSE x \in S : \A y \in S : y <= x

Min(S) == CHOOSE x \in S : \A y \in S : x <= y

\* positions where "Redistribution service:\s+(?P<status>\w+)" matches
StatusMatches(text) ==
    {i \in 1..Len(text) :
        /\ text[i] = KR
        /\ SpaceRun(text, i + 1) >= 1
        /\ i + SpaceRun(text, i + 1) + 1 <= Len(text)
        /\ StartsWithWord(text[i + SpaceRun(text, i + 1) + 1])}

StatusCapture(text, i) == WordRun(text, i + SpaceRun(text, i + 1) + 1)

\* the lengths \s+ can take at i so that (.+) has a first character after it
SslSpaces(text, i) ==
    {k \in 1..SpaceRun(text, i + 1) :
        i + k + 1 <= Len(text) /\ text[i + k + 1] # NL}

\* positions where "SSL config:\s+(?P<ssl_config>.+)" matches
SslMatches(text) ==
    {i \in 1..Len(text) : text[i] = KS /\ SslSpaces(text, i) # {}}

\* \s+ is greedy: it takes the longest run that lets (.+) match
SslCapture(text, i) == DotRun(text, i + Max(SslSpaces(text, i)) + 1)

\* positions where "number of clients:\s+(?P<clients>\d+)" matches
ClientsMatches(text) ==
    {i \in 1..Len(text) :
        /\ text[i] = KN
        /\ SpaceRun(text, i + 1) >= 1
        /\ i + SpaceRun(text, i + 1) + 1 <= Len(text)
        /\ StartsWithDigit(text[i + SpaceRun(text, i + 1) + 1])}

ClientsCapture(text, i) == DigitRun(text, i + SpaceRun(text, i + 1) + 1)

\* str.lower() of a piece
Lower(p) ==
    CASE p = "Default" -> "default"
      [] p = "Redistribution" -> "redistribution"
      [] p = "SSL" -> "ssl"
      [] OTHER -> p

RECURSIVE Flatten(_)
Flatten(ss) == IF ss = <<>> THEN <<>> ELSE Head(ss) \o Flatten(Tail(ss))

\* the pieces of a captured sequence of tokens
CapturePieces(cap) == Flatten([i \in 1..Len(cap) |-> Pieces(cap[i])])

\* .lower() without the replace
LowerOnly(cap) ==
    [i \in 1..Len(CapturePieces(cap)) |-> Lower(CapturePieces(cap)[i])]

\* .lower().replace(" ", "_")
LowerUnderscore(cap) ==
    [i \in 1..Len(CapturePieces(cap)) |->
        IF Lower(CapturePieces(cap)[i]) = SP
        THEN "_" ELSE Lower(CapturePieces(cap)[i])]

DigitValue(d) == IF d = "3" THEN 3 ELSE 0

RECURSIVE ToInt(_)
\* int() of a string of digits
ToInt(ds) ==
    IF ds = <<>> THEN 0
    ELSE ToInt(SubSeq(ds, 1, Len(ds) - 1)) * 10 + DigitValue(ds[Len(ds)])

\* the later patterns searched only once the first one matched
ParsedKeysChained(text) ==
    IF StatusMatches(text) = {} THEN {}
    ELSE {"redistribution_status"}
         \cup (IF SslMatches(text) # {} THEN {"ssl_config"} ELSE {})
         \cup (IF ClientsMatches(text) # {} THEN {"number_of_clients"} ELSE {})

\* the keys of the dict that parse_status_command_output returns for text
ParsedKeys(text) ==
    (IF StatusMatches(text) # {} THEN {"redistribution_status"} ELSE {})
    \cup (IF SslMatches(text) # {} THEN {"ssl_config"} ELSE {})
    \cup (IF ClientsMatches(text) # {} THEN {"number_of_clients"} ELSE {})

parse_status_command_output(text) ==
    [key \in ParsedKeys(text) |->
        CASE key = "redistribution_status" ->
                 CapturePieces(StatusCapture(text, Min(StatusMatches(text))))
          [] key = "ssl_config" ->
                 LowerUnderscore(SslCapture(text, Min(SslMatches(text))))
          [] key = "number_of_clients" ->
                 ToInt(ClientsCapture(text, Min(ClientsMatches(text))))]

\* the strings the gate compares with
Up == <<"up">>

DefaultCertificates == <<"default", "_", "certificates">>


\* the gate with `or` written for `and`
GateDecisionOr(po) ==
    IF ~po.bound THEN "NameError"
    ELSE IF "redistribution_status" \notin DOMAIN po.val THEN "KeyError"
    ELSE IF po.val["redistribution_status"] = Up THEN "proceed"
    ELSE IF "ssl_config" \notin DOMAIN po.val THEN "KeyError"
    ELSE IF po.val["ssl_config"] = DefaultCertificates THEN "proceed"
    ELSE "skip"

\* the condition of lines 145-148 on the name parsed_output: "proceed", "skip",
\* or the exception its evaluation raises (`and` evaluates left to right and
\* stops at the first false operand)
GateDecisionOf(po) ==
    IF ~po.bound THEN "NameError"
    ELSE IF "redistribution_status" \notin DOMAIN po.val THEN "KeyError"
    ELSE IF po.val["redistribution_status"] # Up THEN "skip"
    ELSE IF "ssl_config" \notin DOMAIN po.val THEN "KeyError"
    ELSE IF po.val["ssl_config"] = DefaultCertificates THEN "proceed"
    ELSE "skip"

-----------------------------------------------------------------------------
(* What the collaborators can answer *)

RECURSIVE Repeat(_, _)
Repeat(t, n) == IF n = 0 THEN <<>> ELSE <<t>> \o Repeat(t, n - 1)

Pads == {Repeat("#", n) : n \in 0..MaxPad}

StatusLines ==
    {<<>>, <<KR, SP, "up">>, <<KR, SP, "down">>, <<KR, NL, "up">>, <<KR, "up">>}

SslLines ==
    {<<>>,
     <<KS, SP, "Default", SP, "certificates">>,
     <<KS, SP, "Default", SP, "certificates", SP, "#">>,
     <<KS, SP, "certificates">>,
     <<KS, SP>>}

ClientsLines == {<<>>, <<KN, SP, "3">>}

\* the texts the gate command can return; <<>> is the empty string
GateTexts ==
    {<<>>} \cup
    {p \o r \o <<NL>> \o s \o <<NL>> \o n :
        p \in Pads, r \in StatusLines, s \in SslLines, n \in ClientsLines}

\* the serials the controller can report
Hosts == {"fw1", "fw2"}

\* an entry of the enumeration response: a MemberReference
Entries == [host : Hosts]

\* UNION {[1..n -> S] : n \in from..to}
SeqsOf(S, from, to) == UNION {[1..n -> S] : n \in from..to}

\* response.result of the enumeration: null, without an entry key, with one
\* entry (xmltodict gives a dict) or with several (xmltodict gives a list)
EnumResponses ==
    {[shape |-> "null"], [shape |-> "noentry"]}
    \cup {[shape |-> "dict", entry |-> e] : e \in Entries}
    \cup {[shape |-> "list", entry |-> es] : es \in SeqsOf(Entries, 2, MaxMembers)}

\* response.result of a firewall's redistribution-client query
ClientResponses == {"null", "body", "text", "noresult"}

\* the keys of fw, and for each the key of the system-info response it reads
FwKeys ==
    <<"hostname", "ipaddress", "serial", "model", "sw_version", "app_version",
      "device_cert_status">>

InfoKeys ==
    <<"hostname", "ip-address", "serial", "model", "sw-version", "app-version",
      "device-certificate-status">>

InfoKeySet == {InfoKeys[i] : i \in 1..Len(InfoKeys)}

\* what firewall h answers for key k of its system info
InfoValue(h, k) == <<h, k>>

\* response.result.system of firewall h, with the keys ks
SystemInfo(h, ks) == [k \in ks |-> InfoValue(h, k)]

\* the sets of keys a system-info response can hold: all, or all but one
InfoKeySets == {InfoKeySet} \cup {InfoKeySet \ {k} : k \in InfoKeySet}


FwKeySet == {FwKeys[i] : i \in 1..Len(FwKeys)}

FactKeys == FwKeySet \cup {"redistr_server"}

InfoKeyOf(k) == InfoKeys[CHOOSE i \in 1..Len(FwKeys) : FwKeys[i] = k]

\* the fact assembled with dict.get-like lookups that skip an absent key
CollectFactLenient(info, a) ==
    [exc |-> "none",
     fw |-> [k \in {f \in FactKeys :
                      f = "redistr_server" \/ InfoKeyOf(f) \in DOMAIN info} |->
               IF k = "redistr_server" THEN a # "null"
               ELSE info[InfoKeyOf(k)]]]

\* the flag computed with `is None` written for `is not None`
CollectFactFlagInverted(info, a) ==
    IF \E i \in 1..Len(InfoKeys) : InfoKeys[i] \notin DOMAIN info
        THEN [exc |-> "KeyError"]
    ELSE IF a = "noresult"
        THEN [exc |-> "KeyError"]
    ELSE [exc |-> "none",
          fw |-> [k \in FactKeys |->
                    IF k = "redistr_server" THEN a = "null"
                    ELSE info[InfoKeyOf(k)]]]

\* lines 211-229 for one firewall, given response.result.system (info) and
\* the result of its redistribution-client response (a): the exception
\* raised, or the dict appended to the report
CollectFact(info, a) ==
    IF \E i \in 1..Len(InfoKeys) : InfoKeys[i] \notin DOMAIN info
        THEN [exc |-> "KeyError"]
    ELSE IF a = "noresult"
        THEN [exc |-> "KeyError"]
    ELSE [exc |-> "none",
          fw |-> [k \in FactKeys |->
                    IF k = "redistr_server" THEN a # "null"
                    ELSE info[InfoKeyOf(k)]]]

\* the shape check without its single-object branch
NormalizeListOnly(r) == IF r.shape = "dict" THEN <<>> ELSE r.entry

\* lines 174 and 179-180: the entries to register, for the entry field of the
\* response: the object itself when it is a dict, else each element in turn
Normalize(r) == IF r.shape = "dict" THEN <<r.entry>> ELSE r.entry

\* lines 175-178 and 181-182: a Firewall per entry, added to pan in turn
Registered(kids, entries) ==
    kids \o [i \in 1..Len(entries) |-> entries[i].host]

\* the fact put first
InsertFact(report, fw) == <<fw>> \o report

\* line 229
AppendFact(report, fw) == Append(report, fw)

-----------------------------------------------------------------------------
(* The run *)

Init ==
    /\ pc = "connect"
    /\ outcome = "Running"
    /\ net_connect = "unbound"
    /\ output = Unbound
    /\ parsed_output = Unbound
    /\ pan = "unbound"
    /\ validated = "none"
    /\ redist_clients = Unbound
    /\ children = <<>>
    /\ idx = 0
    /\ a_info = Unbound
    /\ fw_info = Unbound
    /\ redis_client_list = Unbound
    /\ table = Unbound
    /\ results = <<>>
    /\ calls = <<>>
    /\ sshEvents = <<>>
    /\ logs = <<>>

\* an uncaught exception
Raise(exc) ==
    /\ pc' = "done"
    /\ outcome' = exc

ApiCall(op, dev) == calls' = Append(calls, [op |-> op, dev |-> dev])

\* lines 117-121 and 51-67: connect_to_panorama
Connect ==
    /\ pc = "connect"
    /\ \/ /\ net_connect' = "open"
          /\ sshEvents' = Append(sshEvents, "open")
          /\ logs' = logs
       \/ /\ net_connect' = "None"
          /\ sshEvents' = sshEvents
          /\ logs' = Append(logs, 66)
    /\ pc' = "gate_check"
    /\ UNCHANGED <<outcome, output, parsed_output, pan, validated,
                   redist_clients, children, idx, a_info, fw_info,
                   redis_client_list, table, results, calls>>

\* lines 124-138 and 70-79: the gate command, and the parse of its output
SendGate ==
    /\ pc = "gate_check"
    /\ net_connect = "open"
    /\ sshEvents' = Append(sshEvents, "send")
    /\ \/ /\ output' = None
          /\ logs' = Append(logs, 78)
          /\ parsed_output' = parsed_output
       \/ \E text \in GateTexts :
            /\ output' = Some(text)
            /\ logs' = logs
            /\ parsed_output' =
                 IF text # <<>>
                 THEN Bound(parse_status_command_output(text))
                 ELSE parsed_output
    /\ pc' = "disconnect"
    /\ UNCHANGED <<outcome, net_connect, pan, validated, redist_clients,
                   children, idx, a_info, fw_info, redis_client_list, table,
                   results, calls>>

\* the session left open
DisconnectMissing ==
    /\ pc = "disconnect"
    /\ pc' = "gate"
    /\ UNCHANGED <<outcome, net_connect, output, parsed_output, pan, validated,
                   redist_clients, children, idx, a_info, fw_info,
                   redis_client_list, table, results, calls, sshEvents, logs>>

\* the session closed only in the branch that got output
DisconnectIfOutput ==
    /\ pc = "disconnect"
    /\ IF output # None /\ output # Some(<<>>)
       THEN /\ net_connect' = "closed"
            /\ sshEvents' = Append(sshEvents, "close")
       ELSE UNCHANGED <<net_connect, sshEvents>>
    /\ pc' = "gate"
    /\ UNCHANGED <<outcome, output, parsed_output, pan, validated,
                   redist_clients, children, idx, a_info, fw_info,
                   redis_client_list, table, results, calls, logs>>

\* line 140
Disconnect ==
    /\ pc = "disconnect"
    /\ net_connect' = "closed"
    /\ sshEvents' = Append(sshEvents, "close")
    /\ pc' = "gate"
    /\ UNCHANGED <<outcome, output, parsed_output, pan, validated,
                   redist_clients, children, idx, a_info, fw_info,
                   redis_client_list, table, results, calls, logs>>

\* lines 141-142
NoConnection ==
    /\ pc = "gate_check"
    /\ net_connect = "None"
    /\ logs' = Append(logs, 142)
    /\ pc' = "gate"
    /\ UNCHANGED <<outcome, net_connect, output, parsed_output, pan,
                   validated, redist_clients, children, idx, a_info, fw_info,
                   redis_client_list, table, results, calls, sshEvents>>

\* lines 145-154: the gate, and on a pass the Panorama object; when the
\* condition is false the script has nothing more to do
GateDecision ==
    /\ pc = "gate"
    /\ CASE GateDecisionOf(parsed_output) = "proceed" ->
              /\ pan' = "constructed"
              /\ ApiCall("construct", 0)
              /\ pc' = "validate"
              /\ outcome' = outcome
         [] GateDecisionOf(parsed_output) = "skip" ->
              /\ pc' = "done"
              /\ outcome' = "GateSkipped"
              /\ UNCHANGED <<pan, calls>>
         [] OTHER ->
              /\ Raise(GateDecisionOf(parsed_output))
              /\ UNCHANGED <<pan, calls>>
    /\ UNCHANGED <<net_connect, output, parsed_output, validated,
                   redist_clients, children, idx, a_info, fw_info,
                   redis_client_list, table, results, sshEvents, logs>>

\* lines 157-161: a PanDeviceError is caught and logged
Validate ==
    /\ pc = "validate"
    /\ ApiCall("validate", 0)
    /\ \/ /\ validated' = "ok"
          /\ logs' = logs
       \/ /\ validated' = "failed"
          /\ logs' = Append(logs, 161)
    /\ pc' = "enumerate"
    /\ UNCHANGED <<outcome, net_connect, output, parsed_output, pan,
                   redist_clients, children, idx, a_info, fw_info,
                   redis_client_list, table, results, sshEvents>>

\* lines 164-171: pan.op raises, or answers
Enumerate ==
    /\ pc = "enumerate"
    /\ ApiCall("enumerate", 0)
    /\ \/ /\ Raise("PanDeviceError")
          /\ redist_clients' = redist_clients
       \/ \E r \in EnumResponses :
            /\ redist_clients' = Bound(r)
            /\ pc' = "register"
            /\ outcome' = outcome
    /\ UNCHANGED <<net_connect, output, parsed_output, pan, validated,
                   children, idx, a_info, fw_info, redis_client_list, table,
                   results, sshEvents, logs>>

\* lines 174-185
Register ==
    /\ pc = "register"
    /\ CASE redist_clients.val.shape = "null" ->
              Raise("TypeError") /\ children' = children
         [] redist_clients.val.shape = "noentry" ->
              Raise("KeyError") /\ children' = children
         [] OTHER ->
              /\ children' = Registered(children, Normalize(redist_clients.val))
              /\ pc' = "connected"
              /\ outcome' = outcome
    /\ UNCHANGED <<net_connect, output, parsed_output, pan, validated,
                   redist_clients, idx, a_info, fw_info, redis_client_list,
                   table, results, calls, sshEvents, logs>>

\* lines 189-195: the second controller query, whose answer is not used
ShowDevicesConnected ==
    /\ pc = "connected"
    /\ ApiCall("connected", 0)
    /\ \/ /\ Raise("PanDeviceError")
          /\ redis_client_list' = redis_client_list
       \/ /\ redis_client_list' = Bound(<<>>)
          /\ pc' = "loop"
          /\ outcome' = outcome
    /\ UNCHANGED <<net_connect, output, parsed_output, pan, validated,
                   redist_clients, children, idx, a_info, fw_info, table,
                   results, sshEvents, logs>>

\* a loop that stays on the child it has once it has one
LoopHeadAgain ==
    /\ pc = "loop"
    /\ IF idx < Len(children)
       THEN idx' = (IF idx = 0 THEN 1 ELSE idx) /\ pc' = "client_query"
       ELSE idx' = idx /\ pc' = "render"
    /\ UNCHANGED <<outcome, net_connect, output, parsed_output, pan,
                   validated, redist_clients, children, a_info, fw_info,
                   redis_client_list, table, results, calls, sshEvents, logs>>

\* line 197: the next child of pan, or the end of the loop
LoopHead ==
    /\ pc = "loop"
    /\ IF idx < Len(children)
       THEN idx' = idx + 1 /\ pc' = "client_query"
       ELSE idx' = idx /\ pc' = "render"
    /\ UNCHANGED <<outcome, net_connect, output, parsed_output, pan,
                   validated, redist_clients, children, a_info, fw_info,
                   redis_client_list, table, results, calls, sshEvents, logs>>

\* lines 198-205
ClientQuery ==
    /\ pc = "client_query"
    /\ ApiCall("client", idx)
    /\ \/ /\ Raise("PanDeviceError")
          /\ results' = Append(results, "Failure")
          /\ a_info' = a_info
       \/ \E a \in ClientResponses :
            /\ a_info' = Bound(a)
            /\ pc' = "system_query"
            /\ UNCHANGED <<outcome, results>>
    /\ UNCHANGED <<net_connect, output, parsed_output, pan, validated,
                   redist_clients, children, idx, fw_info, redis_client_list,
                   table, sshEvents, logs>>

\* lines 207-229
SystemQuery ==
    /\ pc = "system_query"
    /\ ApiCall("system", idx)
    /\ \/ /\ Raise("PanDeviceError")
          /\ results' = Append(results, "Failure")
          /\ UNCHANGED <<fw_info, redis_client_list>>
       \/ \E ks \in InfoKeySets :
            LET info == SystemInfo(children[idx], ks)
                got == CollectFact(info, a_info.val)
            IN  /\ fw_info' = Bound(info)
                /\ IF got.exc = "none"
                   THEN /\ redis_client_list' =
                             Bound(AppendFact(redis_client_list.val, got.fw))
                        /\ results' = Append(results, "ok")
                        /\ pc' = "loop"
                        /\ outcome' = outcome
                   ELSE /\ Raise(got.exc)
                        /\ results' = Append(results, "Failure")
                        /\ redis_client_list' = redis_client_list
    /\ UNCHANGED <<net_connect, output, parsed_output, pan, validated,
                   redist_clients, children, idx, a_info, table, sshEvents,
                   logs>>

\* lines 232-240
Render ==
    /\ pc = "render"
    /\ table' =
         Bound([headers |-> IF redis_client_list.val # <<>> THEN FactKeys ELSE {},
                rows |-> redis_client_list.val])
    /\ pc' = "done"
    /\ outcome' = "Complete"
    /\ UNCHANGED <<net_connect, output, parsed_output, pan, validated,
                   redist_clients, children, idx, a_info, fw_info,
                   redis_client_list, results, calls, sshEvents, logs>>

Next ==
    \/ Connect
    \/ SendGate
    \/ Disconnect
    \/ NoConnection
    \/ GateDecision
    \/ Validate
    \/ Enumerate
    \/ Register
    \/ ShowDevicesConnected
    \/ LoopHead
    \/ ClientQuery
    \/ SystemQuery
    \/ Render

Spec == Init /\ [][Next]_vars

-----------------------------------------------------------------------------
(* The parser alone, on more texts than the gate command is given above *)

\* the line of the status output that the gate looks for
SslDefaultLine == <<KS, SP, "Default", SP, "certificates">>

\* every text of at most MaxTextLen tokens
ShortTexts == SeqsOf(Tokens, 0, MaxTextLen)

\* the line with at most MaxAround tokens before it and after it
AroundTexts ==
    {pre \o SslDefaultLine \o post :
        pre \in SeqsOf(Tokens, 0, MaxAround),
        post \in SeqsOf(Tokens, 0, MaxAround)}

ParseTexts == GateTexts \cup ShortTexts \cup AroundTexts

InitParse ==
    /\ pc = "parse"
    /\ outcome = "Running"
    /\ net_connect = "open"
    /\ output \in {Some(text) : text \in ParseTexts}
    /\ parsed_output = Unbound
    /\ pan = "unbound"
    /\ validated = "none"
    /\ redist_clients = Unbound
    /\ children = <<>>
    /\ idx = 0
    /\ a_info = Unbound
    /\ fw_info = Unbound
    /\ redis_client_list = Unbound
    /\ table = Unbound
    /\ results = <<>>
    /\ calls = <<>>
    /\ sshEvents = <<"open", "send">>
    /\ logs = <<>>

\* lines 133-135: the call of parse_status_command_output
ParseText ==
    /\ pc = "parse"
    /\ parsed_output' = Bound(parse_status_command_output(output.val))
    /\ pc' = "parsed"
    /\ UNCHANGED <<outcome, net_connect, output, pan, validated,
                   redist_clients, children, idx, a_info, fw_info,
                   redis_client_list, table, results, calls, sshEvents, logs>>

NextParse == ParseText

SpecParse == InitParse /\ [][NextParse]_vars

-----------------------------------------------------------------------------
(* Vocabulary of the properties *)

Done == pc = "done"

\* the run ended in an uncaught exception
Crashed == Done /\ outcome \notin {"GateSkipped", "Complete"}

HasKey(po, key) == po.bound /\ key \in DOMAIN po.val

\* the gate condition of the specification on the parsed fields
GatePassed ==
    /\ HasKey(parsed_output, "redistribution_status")
    /\ HasKey(parsed_output, "ssl_config")
    /\ parsed_output.val["redistribution_status"] = Up
    /\ parsed_output.val["ssl_config"] = DefaultCertificates

\* the gate has been evaluated
GateEvaluated == pc \notin {"connect", "gate_check", "disconnect", "gate"}

\* the positions of calls at which the operation is op
CallsOf(op) == {i \in 1..Len(calls) : calls[i].op = op}

AuditOps == {"enumerate", "connected", "client", "system"}

\* the gate command returned no output: it raised, or returned ""
NoOutput == output = None \/ output = Some(<<>>)

Count(seq, x) == Cardinality({i \in 1..Len(seq) : seq[i] = x})

RECURSIVE OkMembers(_, _)
\* the serials of the children whose result is "ok", in the order of children
OkMembers(kids, res) ==
    IF res = <<>> THEN <<>>
    ELSE OkMembers(kids, SubSeq(res, 1, Len(res) - 1))
         \o (IF res[Len(res)] = "ok" THEN <<kids[Len(res)]>> ELSE <<>>)

\* the serial each fact of the report was answered by
ReportSerials ==
    [i \in 1..Len(redis_client_list.val) |-> redis_client_list.val[i]["serial"][1]]

\* the entries were registered: the script went past line 182
RegistrationDone == pc = "connected" \/ CallsOf("connected") # {}

\* a pattern `kw\s+(c...)` occurs in text: somewhere the keyword, then one or
\* more \s tokens, then a token whose first character is in the class of c
Occurs(text, kw, First(_)) ==
    \E i \in 1..Len(text), k \in 1..Len(text) :
        /\ i + k + 1 <= Len(text)
        /\ text[i] = kw
        /\ \A j \in (i + 1)..(i + k) : IsSpace(text[j])
        /\ First(text[i + k + 1])

\* the first character of the token is matched by `.`
NotNewline(t) == t # NL

\* the positions after which text holds the line `SSL config: Default
\* certificates`, ended by a line break or by the end of the text, with no
\* `SSL config:` followed by whitespace before it
EndedSslLines(text) ==
    {i \in 0..(Len(text) - Len(SslDefaultLine)) :
        /\ SubSeq(text, i + 1, i + Len(SslDefaultLine)) = SslDefaultLine
        /\ \/ i + Len(SslDefaultLine) = Len(text)
           \/ text[i + Len(SslDefaultLine) + 1] = NL
        /\ \A j \in 1..(i - 1) : ~(text[j] = KS /\ IsSpace(text[j + 1]))}

\* the positions after which text holds the line, whatever is around it
SslLines_Any(text) ==
    {i \in 0..(Len(text) - Len(SslDefaultLine)) :
        SubSeq(text, i + 1, i + Len(SslDefaultLine)) = SslDefaultLine}

DeviceOps == {"client", "system"}

\* the positions of calls at which operation op is sent to child k
DeviceCalls(op, k) == {i \in 1..Len(calls) : calls[i].op = op /\ calls[i].dev = k}

\* the outcomes the specification names for the end of a run
ClassifiedOutcomes == {"GateSkipped", "Complete", "ConnectFailure", "AuthFailure"}

\* the gate passed and the report is empty at the end: nothing was
\* enumerated, or every child failed
EmptyReportRun ==
    /\ Done
    /\ GatePassed
    /\ \/ redist_clients.bound /\ redist_clients.val.shape = "null"
       \/ results # <<>> /\ Count(results, "ok") = 0

-----------------------------------------------------------------------------
(* Properties *)

\* C1: once the gate is evaluated on a parsed status, the run has opened the
\* management-API session if status is "up" and ssl_config is
\* "default_certificates", and has otherwise ended in GateSkipped, an unset
\* field included.
C1_GateProceedsIffElseSkipped ==
    (GateEvaluated /\ parsed_output.bound) =>
        IF GatePassed
        THEN pan = "constructed"
        ELSE Done /\ outcome = "GateSkipped" /\ pan = "unbound"

\* C2: a gate command without output ends the run in GateSkipped and no later
\* step of the pipeline is entered.
C2_NoOutputEndsGateSkipped ==
    (Done /\ NoOutput) => (outcome = "GateSkipped" /\ calls = <<>>)

\* C3: a failure of one firewall's query does not abort the run: the run ends
\* Complete, with every child queried and the report holding the others
\* (two facts, of members 1 and 3, when member 2 of three fails).
C3_DeviceFailureDoesNotAbort ==
    (Done /\ Count(results, "Failure") > 0) =>
        /\ outcome = "Complete"
        /\ Len(results) = Len(children)
        /\ ReportSerials = OkMembers(children, results)

\* C4: after a failed validation no enumeration query, no per-device query is
\* issued and no report is produced.
C4_AuthFailureAbortsAudit ==
    validated = "failed" =>
        /\ \A op \in AuditOps : CallsOf(op) = {}
        /\ ~redis_client_list.bound
        /\ ~table.bound

C6_ReportIsSuccessSubsequence ==
    IF redis_client_list.bound
    THEN /\ ReportSerials = OkMembers(children, results)
         /\ Len(redis_client_list.val) = Count(results, "ok")
         /\ Len(redis_client_list.val) <= Len(children)
         /\ Len(results) <= Len(children)
    ELSE results = <<>>

\* three children, the second of another serial than the others, the third
\* failed: the report holds the first two
C6_Witness ==
    /\ Done
    /\ children = <<"fw2", "fw1", "fw2">>
    /\ results = <<"ok", "ok", "Failure">>
    /\ Len(redis_client_list.val) = 2

\* C7: a system-info response without one of its keys makes the collection
\* for that firewall fail, and every fact of the report has all eight keys.
C7_NoPartialFact ==
    /\ redis_client_list.bound =>
          \A i \in 1..Len(redis_client_list.val) :
              DOMAIN redis_client_list.val[i] = FactKeys
    /\ (fw_info.bound /\ DOMAIN fw_info.val # InfoKeySet) =>
          /\ Len(results) = idx
          /\ results[idx] = "Failure"
          /\ Len(redis_client_list.val) = idx - 1

\* the second child answered without its serial, after a first fact
C7_Witness ==
    /\ fw_info.bound
    /\ DOMAIN fw_info.val = InfoKeySet \ {"serial"}
    /\ idx = 2
    /\ results = <<"ok", "Failure">>
    /\ Len(redis_client_list.val) = 1

\* C8: a session that was opened is closed once the run has ended, whether
\* the command returned output, none, or raised; it is closed once, and
\* nothing is done on it after it is closed.
C8_SessionClosedOnce ==
    /\ (Done /\ Count(sshEvents, "open") > 0) =>
          (Count(sshEvents, "close") = 1 /\ net_connect = "closed")
    /\ Count(sshEvents, "close") <= 1
    /\ \A i \in 1..Len(sshEvents) :
          sshEvents[i] = "close" => i = Len(sshEvents)

\* a run whose gate command raised and whose session was closed
C8_Witness ==
    /\ Done
    /\ output = None
    /\ sshEvents = <<"open", "send", "close">>

\* C9: a failed connection ends the run in ConnectFailure, logged as an
\* error, with no gate command sent and no management-API call made.
C9_ConnectFailureOutcome ==
    net_connect = "None" =>
        /\ logs # <<>>
        /\ Count(sshEvents, "send") = 0
        /\ calls = <<>>
        /\ Done => outcome = "ConnectFailure"

\* C10: the children registered are the serials of the one entry when the
\* entry field is an object, and of every element in its order when it is a
\* list; the entries of a list are the list itself, so that taking the
\* entries of the entries changes nothing.
C10_NormalizeThenRegister ==
    (redist_clients.bound /\ redist_clients.val.shape \in {"dict", "list"}) =>
        /\ Normalize([shape |-> "list", entry |-> Normalize(redist_clients.val)])
              = Normalize(redist_clients.val)
        /\ RegistrationDone =>
              IF redist_clients.val.shape = "dict"
              THEN children = <<redist_clients.val.entry.host>>
              ELSE /\ Len(children) = Len(redist_clients.val.entry)
                   /\ \A i \in 1..Len(children) :
                         children[i] = redist_clients.val.entry[i].host

\* an enumeration that answered a single object, registered
C10_Witness ==
    /\ RegistrationDone
    /\ redist_clients.bound
    /\ redist_clients.val.shape = "dict"
    /\ children = <<"fw2">>

\* C11: every fact is appended with is_redistribution_server true exactly
\* when the result of that firewall's redistribution-client response is not
\* null, whatever the body holds and whatever the system info is; the facts
\* already in the report are left as they are.
C11_FlagIsClientResultNonNull ==
    [][(redis_client_list.bound /\ redis_client_list' # redis_client_list) =>
          /\ Len(redis_client_list'.val) = Len(redis_client_list.val) + 1
          /\ SubSeq(redis_client_list'.val, 1, Len(redis_client_list.val))
                = redis_client_list.val
          /\ redis_client_list'.val[Len(redis_client_list'.val)]["redistr_server"]
                = (a_info.val \in {"body", "text"})]_vars

\* a report with a fact of a null result after a fact of a non-null one, the
\* last one just appended for a result of null
C11_Witness ==
    /\ pc = "loop"
    /\ idx = 2
    /\ a_info = Bound("null")
    /\ Len(redis_client_list.val) = 2
    /\ redis_client_list.val[1]["redistr_server"] = TRUE
    /\ redis_client_list.val[2]["redistr_server"] = FALSE

\* C12: the parser returns a dict for every text, and each of the three keys
\* is in it exactly when its own pattern occurs in the text, whatever the other
\* two patterns do; number_of_clients is then a number.
C12_FieldPresentIffPatternOccurs ==
    pc = "parsed" =>
        /\ parsed_output.bound
        /\ DOMAIN parsed_output.val \subseteq
              {"redistribution_status", "ssl_config", "number_of_clients"}
        /\ HasKey(parsed_output, "redistribution_status")
              <=> Occurs(output.val, KR, StartsWithWord)
        /\ HasKey(parsed_output, "ssl_config")
              <=> Occurs(output.val, KS, NotNewline)
        /\ HasKey(parsed_output, "number_of_clients")
              <=> Occurs(output.val, KN, StartsWithDigit)
        /\ HasKey(parsed_output, "number_of_clients")
              => parsed_output.val["number_of_clients"] \in Nat

\* a text with the SSL and the client-count patterns and without the status
\* pattern, parsed
C12_Witness ==
    /\ pc = "parsed"
    /\ DOMAIN parsed_output.val = {"ssl_config", "number_of_clients"}
    /\ ~Occurs(output.val, KR, StartsWithWord)

C14_EachEdgeOnce ==
    /\ Count(sshEvents, "open") <= 1
    /\ Count(sshEvents, "send") <= 1
    /\ \A op \in {"construct", "validate", "enumerate"} :
          Cardinality(CallsOf(op)) <= 1
    /\ \A i \in 1..Len(calls) :
          calls[i].op \in DeviceOps =>
              /\ Cardinality(DeviceCalls(calls[i].op, calls[i].dev)) = 1
              /\ calls[i].op = "system" =>
                    \E j \in 1..(i - 1) : calls[j] = [op |-> "client", dev |-> calls[i].dev]
              /\ \A k \in 1..(calls[i].dev - 1) :
                    /\ results[k] = "ok"
                    /\ \E a, b \in 1..(i - 1) :
                          /\ a < b
                          /\ calls[a] = [op |-> "client", dev |-> k]
                          /\ calls[b] = [op |-> "system", dev |-> k]

\* a complete run over three children: ten operations
C14_Witness ==
    /\ Done
    /\ outcome = "Complete"
    /\ Len(children) = 3
    /\ Len(calls) = 10

\* C15: a run ends in GateSkipped, in Complete or in one of the fatal
\* failures ConnectFailure and AuthFailure, never in another error, and the
\* loop runs at most once for each child.
C15_TerminalOutcomeClassified ==
    /\ Done => outcome \in ClassifiedOutcomes
    /\ Len(results) <= Len(children)

\* C16: a run whose gate passed and whose report is empty ends Complete, with
\* an empty record set given to the renderer.
C16_EmptyReportCompletes ==
    EmptyReportRun =>
        /\ outcome = "Complete"
        /\ table.bound
        /\ table.val.rows = <<>>

\* C17: the management-API session exists only once the SSH session is closed
\* or was never opened, and a child is queried only after the registration,
\* as one of the registered children.
C17_SessionsDoNotOverlap ==
    /\ (pan # "unbound" \/ calls # <<>>) =>
          /\ net_connect # "open"
          /\ Count(sshEvents, "open") > 0 =>
                sshEvents[Len(sshEvents)] = "close"
    /\ \A i \in 1..Len(calls) :
          calls[i].op \in DeviceOps =>
              /\ calls[i].dev \in 1..Len(children)
              /\ \E j \in 1..(i - 1) : calls[j].op = "connected"
              /\ redist_clients.bound
              /\ children = Registered(<<>>, Normalize(redist_clients.val))

\* the second child being queried, the SSH session long closed
C17_Witness ==
    /\ pc = "system_query"
    /\ idx = 2
    /\ net_connect = "closed"
    /\ pan = "constructed"
    /\ Cardinality(DeviceCalls("client", 2)) = 1

=============================================================================
